---- MODULE Spec2Model ----
(***************************************************************************)
(* Model of the S3M timing belt generator: src/timing_belt/core.py (belt   *)
(* specification, tooth polygon, batched solid construction, export) and   *)
(* src/app.py (Streamlit session state, Calculate and Generate handlers).  *)
(*                                                                         *)
(* Lengths are fixed-point integers in hundredths of a millimetre, so      *)
(* 3.0 mm is 300 and 2.99 mm is 299.  Optional values (Python None) are    *)
(* sequences: <<>> is None and <<v>> is the value v.                       *)
(***************************************************************************)
EXTENDS Integers, Sequences, FiniteSets, Bags, TLC

VARIABLES
    args,       \* arguments handed to S3MTimingBelt(...)
    belt,       \* <<>> before construction, then <<result of __init__>>
    belt2,      \* result of constructing again from belt.length_mm
    cpc         \* position of the constructor scenario

VARIABLES
    self,           \* the belt whose solid is being built
    fmt,            \* "STL" for export_stl, "STEP" for export_step
    bpc,            \* position inside export_* / _create_3d_belt
    ring,           \* the annulus (the local named belt in _create_3d_belt)
    base_tooth,     \* the extruded tooth polygon
    batch_start,    \* outer loop variable
    batch_end,      \* end of the current batch
    i,              \* inner loop variable
    batch_teeth,    \* union of the current batch, None before its first tooth
    teeth,          \* running union of the finished batches
    result,         \* the local named result: the cut ring, then scaled
    returned,       \* what _create_3d_belt returned to its caller, or None
    kernel_error,   \* the message of the kernel call that failed, or None
    error,          \* chain of messages of the raised error, <<>> if none
    exported        \* solids handed to cq.exporters.export, in order

VARIABLES
    session_state,  \* st.session_state of the web app
    tmp_files,      \* temporary files present on disk, <<flow, suffix>>
    flows,          \* number of file-generation flows started
    apc             \* position inside the "Generate Belt Files" flow

ctorVars == <<args, belt, belt2, cpc>>

appVars == <<session_state, tmp_files, flows, apc>>

buildVars == <<self, fmt, bpc, ring, base_tooth, batch_start, batch_end, i,
               batch_teeth, teeth, result, returned, kernel_error, error,
               exported>>

vars == <<args, belt, belt2, cpc, self, fmt, bpc, ring, base_tooth,
          batch_start, batch_end, i, batch_teeth, teeth, result, returned,
          kernel_error, error, exported, session_state, tmp_files, flows,
          apc>>

(***************************************************************************)
(* Bounds of the enumerated inputs.                                        *)
(***************************************************************************)
MinLenIn == 2000
MaxLenIn == 3800
MinTeethIn == 8
MaxTeethIn == 13

None == <<>>
Some(v) == <<v>>
Abs(x) == IF x < 0 THEN -x ELSE x

(***************************************************************************)
(* ToothProfile defaults, in hundredths of a millimetre.                   *)
(***************************************************************************)
pitch == 300
tooth_height == 140
tooth_width_at_base == 200
tooth_radius == 60
belt_thickness == 200
extra_depth == 100

\* ToothProfile.validate: "" when the profile is accepted, else the message.
ToothProfile_validate ==
    IF tooth_width_at_base <= 0 THEN "Tooth width must be positive"
    ELSE IF tooth_height <= 0 THEN "Tooth height must be positive"
    ELSE IF 2 * tooth_radius >= tooth_width_at_base
         THEN "Tooth radius too large for tooth width"
    ELSE IF belt_thickness < tooth_height
         THEN "Belt must be thicker than tooth height"
    ELSE ""

\* Python's round(num / den) for num >= 0, den > 0: nearest integer, ties to
\* the even neighbour.
PyRound(num, den) ==
    LET q == num \div den
        r == num % den
    IN  IF 2 * r < den THEN q
        ELSE IF 2 * r > den THEN q + 1
        ELSE IF q % 2 = 0 THEN q ELSE q + 1

\* A divisor slip: the tooth width is used where the pitch belongs.
TeethFromLength_WrongDivisor(length_mm) == PyRound(length_mm, tooth_width_at_base)

\* Truncation instead of rounding: int(length_mm / pitch).
TeethFromLength_Truncate(length_mm) == length_mm \div pitch

\* self.num_teeth = round(length_mm / self.profile.pitch)
TeethFromLength(length_mm) == PyRound(length_mm, pitch)

\* self.length_mm = num_teeth * self.profile.pitch
LengthFromTeeth(num_teeth) == num_teeth * pitch

\* self.pitch_radius = self.length_mm / (2 * math.pi), with 2*pi = 6.2832,
\* truncated to a hundredth of a millimetre.
PitchRadius(length_mm) == (length_mm * 10000) \div 62832

ErrTeeth == "Number of teeth must be at least 10"
ErrWidth == "Belt width must be at least 3mm"
ErrRadius == "Belt radius too small for tooth dimensions"
ErrNoInput == "Either length_mm or num_teeth must be provided"

Rejected(msg) ==
    [status |-> "error", error |-> msg, length_mm |-> 0, num_teeth |-> 0,
     width |-> 0, scale_factor |-> 0, pitch_radius |-> 0]

Accepted(length_mm, num_teeth, width, scale_factor) ==
    [status |-> "ok", error |-> "", length_mm |-> length_mm,
     num_teeth |-> num_teeth, width |-> width, scale_factor |-> scale_factor,
     pitch_radius |-> PitchRadius(length_mm)]

\* The width check placed ahead of the tooth-count check.
Validate_WidthFirst(length_mm, num_teeth, width, scale_factor) ==
    IF width < 300 THEN Rejected(ErrWidth)
    ELSE IF num_teeth < 10 THEN Rejected(ErrTeeth)
    ELSE IF PitchRadius(length_mm) < belt_thickness + tooth_height
         THEN Rejected(ErrRadius)
    ELSE Accepted(length_mm, num_teeth, width, scale_factor)

\* The "Validate inputs" block of __init__: first failing check raises.
Validate(length_mm, num_teeth, width, scale_factor) ==
    IF num_teeth < 10 THEN Rejected(ErrTeeth)
    ELSE IF width < 300 THEN Rejected(ErrWidth)
    ELSE IF PitchRadius(length_mm) < belt_thickness + tooth_height
         THEN Rejected(ErrRadius)
    ELSE Accepted(length_mm, num_teeth, width, scale_factor)

\* S3MTimingBelt.__init__(length_mm, num_teeth, width, scale_factor)
S3MTimingBelt(length_mm, num_teeth, width, scale_factor) ==
    IF ToothProfile_validate /= "" THEN Rejected(ToothProfile_validate)
    ELSE IF length_mm /= None
         THEN Validate(length_mm[1], TeethFromLength(length_mm[1]),
                       width, scale_factor)
    ELSE IF num_teeth /= None
         THEN Validate(LengthFromTeeth(num_teeth[1]), num_teeth[1],
                       width, scale_factor)
    ELSE Rejected(ErrNoInput)

\* initialize_session_state: the defaults of a fresh session.  length and
\* belt_width are in hundredths of a millimetre, scale_factor in tenths of a
\* percent.
SessionDefaults ==
    [length |-> 21000, num_teeth |-> 70, belt_width |-> 400,
     scale_factor |-> 1005, calculated_belt |-> None, stl_data |-> None,
     step_data |-> None, files_generated |-> FALSE]

\* The web app before any user action.
AppIdle ==
    /\ session_state = SessionDefaults
    /\ tmp_files = {}
    /\ flows = 0
    /\ apc = "idle"

\* The build variables while no build is running.
BuildIdle ==
    /\ self = None
    /\ fmt = "STL"
    /\ bpc = "idle"
    /\ ring = None
    /\ base_tooth = None
    /\ batch_start = 0
    /\ batch_end = 0
    /\ i = 0
    /\ batch_teeth = None
    /\ teeth = None
    /\ result = None
    /\ returned = None
    /\ kernel_error = None
    /\ error = <<>>
    /\ exported = <<>>

(***************************************************************************)
(* Constructor scenario: arguments are drawn from the bounded sets, the    *)
(* constructor runs, and an accepted belt's length is fed to a second      *)
(* construction.                                                           *)
(***************************************************************************)
LengthInputs == {None} \cup {Some(l) : l \in MinLenIn..MaxLenIn}
TeethInputs == {None} \cup {Some(n) : n \in MinTeethIn..MaxTeethIn}
WidthInputs == {299, 300, 900}

InitCtor ==
    /\ args \in [length_mm : LengthInputs, num_teeth : TeethInputs,
                 width : WidthInputs, scale_factor : {100500}]
    /\ belt = None
    /\ belt2 = None
    /\ cpc = "args"
    /\ BuildIdle
    /\ AppIdle

Construct ==
    /\ cpc = "args"
    /\ belt' = Some(S3MTimingBelt(args.length_mm, args.num_teeth,
                                  args.width, args.scale_factor))
    /\ cpc' = "constructed"
    /\ UNCHANGED <<args, belt2>>
    /\ UNCHANGED buildVars
    /\ UNCHANGED appVars

ReconstructFromLength ==
    /\ cpc = "constructed"
    /\ belt[1].status = "ok"
    /\ belt2' = Some(S3MTimingBelt(Some(belt[1].length_mm), None,
                                   args.width, args.scale_factor))
    /\ cpc' = "reconstructed"
    /\ UNCHANGED <<args, belt>>
    /\ UNCHANGED buildVars
    /\ UNCHANGED appVars

NextCtor == Construct \/ ReconstructFromLength

SpecCtor == InitCtor /\ [][NextCtor]_vars

(***************************************************************************)
(* Properties of the constructor.                                          *)
(***************************************************************************)
Constructed == cpc /= "args"
DrivenByLength == args.length_mm /= None
DrivenByTeethOnly == args.length_mm = None /\ args.num_teeth /= None

\* C1: every successfully constructed belt stores length_mm equal to
\* num_teeth * pitch exactly, whichever quantity it was constructed from.
C1_ExactMultiple ==
    (Constructed /\ belt[1].status = "ok")
        => belt[1].length_mm = belt[1].num_teeth * pitch

\* C2: construction succeeds only when exactly one of length_mm and
\* num_teeth is supplied; both or neither ends in an input error.
C2_ExactlyOneSupplied ==
    (Constructed /\ belt[1].status = "ok")
        => ((args.length_mm = None) /= (args.num_teeth = None))

\* The message of the first violated check, in the order tooth count,
\* width, pitch radius, for the derived tooth count n and length l.
FirstViolation(l, n, w) ==
    IF n < 10 THEN ErrTeeth
    ELSE IF w < 300 THEN ErrWidth
    ELSE IF l * 10000 < (belt_thickness + tooth_height) * 62832 THEN ErrRadius
    ELSE ""

DerivedTeeth ==
    IF DrivenByLength THEN TeethFromLength(args.length_mm[1])
    ELSE args.num_teeth[1]

DerivedLength ==
    IF DrivenByLength THEN args.length_mm[1] ELSE args.num_teeth[1] * pitch

\* C3: with a driving quantity supplied, construction is rejected exactly
\* when num_teeth < 10, width < 3.0 or pitch_radius < belt_thickness +
\* tooth_height, and the error is that of the first violated check in the
\* order tooth count, width, pitch radius.
C3_ValidationOrder ==
    (Constructed /\ (DrivenByLength \/ DrivenByTeethOnly))
        => LET msg == FirstViolation(DerivedLength, DerivedTeeth, args.width)
           IN  /\ (belt[1].status = "error") <=> (msg /= "")
               /\ belt[1].error = msg
               /\ Cardinality({ErrTeeth, ErrWidth, ErrRadius}) = 3

C3_Witness ==
    /\ Constructed
    /\ args.length_mm = None
    /\ args.num_teeth = Some(9)
    /\ args.width = 299
    /\ belt[1].error = ErrTeeth

\* C7: constructing from num_teeth = n and constructing again from the
\* resulting length_mm yields num_teeth = n and the same length_mm.
C7_RoundTrip ==
    (cpc = "reconstructed" /\ DrivenByTeethOnly)
        => /\ belt2[1].status = "ok"
           /\ belt2[1].num_teeth = args.num_teeth[1]
           /\ belt2[1].length_mm = belt[1].length_mm

C7_Witness ==
    /\ cpc = "reconstructed"
    /\ DrivenByTeethOnly
    /\ args.num_teeth = Some(11)
    /\ belt2[1].num_teeth = 11
    /\ belt2[1].length_mm = 3300

\* C8: constructing from length_mm = k * pitch + e with k >= 10 and
\* |e| < pitch / 2 yields num_teeth = k.
C8_NearestTeeth ==
    (Constructed /\ DrivenByLength /\ args.width >= 300)
        => \A k \in 10..(MaxLenIn \div pitch + 1) :
              (2 * Abs(args.length_mm[1] - k * pitch) < pitch)
                  => /\ belt[1].status = "ok"
                     /\ belt[1].num_teeth = k

C8_Witness ==
    /\ Constructed
    /\ args.length_mm = Some(11 * pitch - 149)
    /\ args.width = 300
    /\ belt[1].status = "ok"
    /\ belt[1].num_teeth = 11

(***************************************************************************)
(* Solid construction: _create_single_tooth, _create_3d_belt and the two   *)
(* export methods.  A solid is a term: the ring is its radii and height,   *)
(* a union of rotated teeth is the bag of their rotation angles, and the   *)
(* result is the ring, the bag cut from it and the scale applied.  Every   *)
(* kernel call either succeeds or raises one of KernelMessages.            *)
(***************************************************************************)
MaxBuildTeeth == 41

KernelMessages == {"BRep_API: command not done", "Standard_NullObject"}

batch_size == 10

\* scale_factor 1.0 in units of 1/100000.
NoScale == 100000

ErrGeometry == "Failed to create belt geometry"
ErrExport == [STL |-> "Failed to export STL", STEP |-> "Failed to export STEP"]

\* tooth_tip_width = tooth_width * 0.8
tooth_tip_width == (tooth_width_at_base * 8) \div 10

\* The two upper vertices in the wrong order: a bow-tie.
ToothPoints_Bowtie(pitch_radius) ==
    LET inner_radius == pitch_radius - belt_thickness
        tooth_width == tooth_width_at_base
    IN  << <<-(tooth_width \div 2), inner_radius - extra_depth>>,
           <<tooth_tip_width \div 2, inner_radius + tooth_height>>,
           <<-(tooth_tip_width \div 2), inner_radius + tooth_height>>,
           <<tooth_width \div 2, inner_radius - extra_depth>>,
           <<-(tooth_width \div 2), inner_radius - extra_depth>> >>

\* The points list of _create_single_tooth, each point <<x, y>>.
ToothPoints(pitch_radius) ==
    LET inner_radius == pitch_radius - belt_thickness
        tooth_width == tooth_width_at_base
    IN  << <<-(tooth_width \div 2), inner_radius - extra_depth>>,
           <<-(tooth_tip_width \div 2), inner_radius + tooth_height>>,
           <<tooth_tip_width \div 2, inner_radius + tooth_height>>,
           <<tooth_width \div 2, inner_radius - extra_depth>>,
           <<-(tooth_width \div 2), inner_radius - extra_depth>> >>

\* angle = 360.0 / self.num_teeth, in millionths of a degree.
Angle(num_teeth) == 360000000 \div num_teeth

Min(a, b) == IF a < b THEN a ELSE b

\* The clamp to num_teeth left out.
BatchEnd_NoClamp(start, num_teeth) == start + batch_size

\* batch_end = min(batch_start + batch_size, self.num_teeth)
BatchEnd(start, num_teeth) == Min(start + batch_size, num_teeth)

\* Belts a build can start from: every accepted construction from the
\* bounded tooth counts and from lengths that are not multiples of the pitch.
BuildLengths == {2850, 3149, 3301}

BuildBelts ==
    {b \in {S3MTimingBelt(None, Some(n), w, sf) :
                n \in 10..MaxBuildTeeth, w \in {300, 900},
                sf \in {NoScale, 100500}}
           \cup {S3MTimingBelt(Some(l), None, 900, 100500) : l \in BuildLengths} :
        b.status = "ok"}

CtorIdle ==
    /\ args = [length_mm |-> None, num_teeth |-> None, width |-> 900,
               scale_factor |-> 100500]
    /\ belt = None
    /\ belt2 = None
    /\ cpc = "idle"

InitBuild ==
    /\ CtorIdle
    /\ AppIdle
    /\ self \in {Some(b) : b \in BuildBelts}
    /\ fmt \in {"STL", "STEP"}
    /\ bpc = "ring"
    /\ ring = None
    /\ base_tooth = None
    /\ batch_start = 0
    /\ batch_end = 0
    /\ i = 0
    /\ batch_teeth = None
    /\ teeth = None
    /\ result = None
    /\ returned = None
    /\ kernel_error = None
    /\ error = <<>>
    /\ exported = <<>>

\* except Exception as e: raise RuntimeError(f"Failed to create belt
\* geometry: {str(e)}") -- nothing is returned.
Raise(msg) ==
    /\ bpc' = "raised"
    /\ kernel_error' = Some(msg)
    /\ error' = <<ErrGeometry, msg>>

\* belt = Workplane.circle(pitch_radius).circle(pitch_radius -
\* belt_thickness).extrude(width)
CreateRing ==
    /\ bpc = "ring"
    /\ \/ /\ ring' = Some([outer |-> self[1].pitch_radius,
                           inner |-> self[1].pitch_radius - belt_thickness,
                           height |-> self[1].width])
          /\ bpc' = "tooth"
          /\ UNCHANGED <<kernel_error, error>>
       \/ /\ \E msg \in KernelMessages : Raise(msg)
          /\ UNCHANGED ring
    /\ UNCHANGED <<self, fmt, base_tooth, batch_start, batch_end, i,
                   batch_teeth, teeth, result, returned, exported>>
    /\ UNCHANGED ctorVars
    /\ UNCHANGED appVars

\* base_tooth = self._create_single_tooth(); batch_size, angle and
\* teeth = None are set before the loop starts.
CreateSingleTooth ==
    /\ bpc = "tooth"
    /\ \/ /\ base_tooth' = Some([points |-> ToothPoints(self[1].pitch_radius),
                                 height |-> self[1].width])
          /\ teeth' = None
          /\ batch_start' = 0
          /\ bpc' = "batch"
          /\ UNCHANGED <<kernel_error, error>>
       \/ /\ \E msg \in KernelMessages : Raise(msg)
          /\ UNCHANGED <<base_tooth, teeth, batch_start>>
    /\ UNCHANGED <<self, fmt, ring, batch_end, i, batch_teeth, result,
                   returned, exported>>
    /\ UNCHANGED ctorVars
    /\ UNCHANGED appVars

\* for batch_start in range(0, num_teeth, batch_size): the head of one
\* iteration, or the exit of the loop.
BatchHead ==
    /\ bpc = "batch"
    /\ IF batch_start < self[1].num_teeth
       THEN /\ batch_teeth' = None
            /\ batch_end' = BatchEnd(batch_start, self[1].num_teeth)
            /\ i' = batch_start
            /\ bpc' = "rotate"
       ELSE /\ bpc' = "cut"
            /\ UNCHANGED <<batch_teeth, batch_end, i>>
    /\ UNCHANGED <<self, fmt, ring, base_tooth, batch_start, teeth, result,
                   returned, kernel_error, error, exported>>
    /\ UNCHANGED ctorVars
    /\ UNCHANGED appVars

\* One iteration of for i in range(batch_start, batch_end): rotate the base
\* tooth by i * angle and union it into the batch.
RotateTooth ==
    /\ bpc = "rotate"
    /\ i < batch_end
    /\ LET rotated == SetToBag({i * Angle(self[1].num_teeth)})
       IN  \/ /\ batch_teeth' = IF batch_teeth = None THEN Some(rotated)
                                ELSE Some(batch_teeth[1] (+) rotated)
              /\ i' = i + 1
              /\ UNCHANGED <<bpc, kernel_error, error>>
           \/ /\ \E msg \in KernelMessages : Raise(msg)
              /\ UNCHANGED <<batch_teeth, i>>
    /\ UNCHANGED <<self, fmt, ring, base_tooth, batch_start, batch_end, teeth,
                   result, returned, exported>>
    /\ UNCHANGED ctorVars
    /\ UNCHANGED appVars

\* The inner loop is exhausted: the batch joins the running union and the
\* outer loop variable advances by batch_size.
MergeBatch ==
    /\ bpc = "rotate"
    /\ i >= batch_end
    /\ \/ /\ teeth = None
          /\ teeth' = batch_teeth
          /\ batch_start' = batch_start + batch_size
          /\ bpc' = "batch"
          /\ UNCHANGED <<kernel_error, error>>
       \/ /\ teeth /= None
          /\ batch_teeth /= None
          /\ teeth' = Some(teeth[1] (+) batch_teeth[1])
          /\ batch_start' = batch_start + batch_size
          /\ bpc' = "batch"
          /\ UNCHANGED <<kernel_error, error>>
       \/ /\ teeth /= None
          /\ \E msg \in KernelMessages : Raise(msg)
          /\ UNCHANGED <<teeth, batch_start>>
    /\ UNCHANGED <<self, fmt, ring, base_tooth, batch_end, i, batch_teeth,
                   result, returned, exported>>
    /\ UNCHANGED ctorVars
    /\ UNCHANGED appVars

\* result = belt.cut(teeth)
CutTeeth ==
    /\ bpc = "cut"
    /\ \/ /\ teeth /= None
          /\ result' = Some([body |-> ring[1], cut |-> teeth[1],
                             scale |-> NoScale])
          /\ bpc' = "scale"
          /\ UNCHANGED <<kernel_error, error>>
       \/ /\ \E msg \in KernelMessages : Raise(msg)
          /\ UNCHANGED result
    /\ UNCHANGED <<self, fmt, ring, base_tooth, batch_start, batch_end, i,
                   batch_teeth, teeth, returned, exported>>
    /\ UNCHANGED ctorVars
    /\ UNCHANGED appVars

\* A failed scale answered with the unscaled solid.
ScaleAndReturn_SwallowFailure ==
    /\ bpc = "scale"
    /\ \/ /\ result' = Some([result[1] EXCEPT !.scale = self[1].scale_factor])
          /\ returned' = result'
       \/ /\ self[1].scale_factor /= NoScale
          /\ returned' = result
          /\ UNCHANGED result
    /\ bpc' = "export"
    /\ UNCHANGED <<self, fmt, ring, base_tooth, batch_start, batch_end, i,
                   batch_teeth, teeth, kernel_error, error, exported>>
    /\ UNCHANGED ctorVars
    /\ UNCHANGED appVars

\* if self.scale_factor != 1.0: result = Workplane.add(result.val().scale(
\* self.scale_factor)); return result
ScaleAndReturn ==
    /\ bpc = "scale"
    /\ \/ /\ self[1].scale_factor = NoScale
          /\ returned' = result
          /\ bpc' = "export"
          /\ UNCHANGED <<result, kernel_error, error>>
       \/ /\ self[1].scale_factor /= NoScale
          /\ result' = Some([result[1] EXCEPT !.scale = self[1].scale_factor])
          /\ returned' = result'
          /\ bpc' = "export"
          /\ UNCHANGED <<kernel_error, error>>
       \/ /\ self[1].scale_factor /= NoScale
          /\ \E msg \in KernelMessages : Raise(msg)
          /\ UNCHANGED <<result, returned>>
    /\ UNCHANGED <<self, fmt, ring, base_tooth, batch_start, batch_end, i,
                   batch_teeth, teeth, exported>>
    /\ UNCHANGED ctorVars
    /\ UNCHANGED appVars

\* cq.exporters.export(belt, filename, 'STL' or 'STEP') in export_stl /
\* export_step, reached only when _create_3d_belt returned.
Export ==
    /\ bpc = "export"
    /\ exported' = Append(exported, returned[1])
    /\ \/ /\ bpc' = "done"
          /\ UNCHANGED <<kernel_error, error>>
       \/ \E msg \in KernelMessages :
             /\ bpc' = "failed"
             /\ kernel_error' = Some(msg)
             /\ error' = <<ErrExport[fmt], msg>>
    /\ UNCHANGED <<self, fmt, ring, base_tooth, batch_start, batch_end, i,
                   batch_teeth, teeth, result, returned>>
    /\ UNCHANGED ctorVars
    /\ UNCHANGED appVars

\* The except clause of export_stl / export_step when _create_3d_belt
\* raised: the error is wrapped once more and the exporter is not called.
ExportRaises ==
    /\ bpc = "raised"
    /\ bpc' = "failed"
    /\ error' = <<ErrExport[fmt]>> \o error
    /\ UNCHANGED <<self, fmt, ring, base_tooth, batch_start, batch_end, i,
                   batch_teeth, teeth, result, returned, kernel_error,
                   exported>>
    /\ UNCHANGED ctorVars
    /\ UNCHANGED appVars

NextBuild ==
    \/ CreateRing
    \/ CreateSingleTooth
    \/ BatchHead
    \/ RotateTooth
    \/ MergeBatch
    \/ CutTeeth
    \/ ScaleAndReturn
    \/ Export
    \/ ExportRaises

SpecBuild == InitBuild /\ [][NextBuild]_vars

(***************************************************************************)
(* Properties of the solid construction.                                   *)
(***************************************************************************)
\* One copy of the base tooth for every index of [0, n), rotated by
\* i * (360 / n).
ExpectedTeeth(n) == SetToBag({k * Angle(n) : k \in 0..(n - 1)})

\* C4: when the replication loop finishes, the teeth solid is the union of
\* exactly num_teeth rotated copies, one per index i in [0, num_teeth) at
\* i * (360 / num_teeth) degrees, none skipped or duplicated, and no batch
\* ever unions more than 10 teeth.
C4_ExactlyNTeeth ==
    /\ (bpc \in {"cut", "scale", "export", "done"} /\ teeth /= None)
          => /\ teeth[1] = ExpectedTeeth(self[1].num_teeth)
             /\ BagCardinality(teeth[1]) = self[1].num_teeth
             /\ Cardinality(BagToSet(teeth[1])) = self[1].num_teeth
    /\ bpc = "cut" => teeth /= None
    /\ result /= None => result[1].cut = ExpectedTeeth(self[1].num_teeth)
    /\ batch_teeth /= None => BagCardinality(batch_teeth[1]) <= 10

C4_Witness ==
    /\ bpc = "scale"
    /\ self[1].num_teeth = 13
    /\ result[1].cut = ExpectedTeeth(13)
    /\ BagCardinality(batch_teeth[1]) = 3

\* The finished solid of the belt being built.
Complete(solid) ==
    /\ solid.body = [outer |-> self[1].pitch_radius,
                     inner |-> self[1].pitch_radius - belt_thickness,
                     height |-> self[1].width]
    /\ solid.cut = ExpectedTeeth(self[1].num_teeth)
    /\ solid.scale = self[1].scale_factor

\* C5: a kernel failure anywhere in _create_3d_belt ends in a construction
\* error carrying the kernel's message with no solid returned, the exporter
\* is never called on a partially built solid, and a solid is returned only
\* after ring, tooth unions, cut and scaling have all completed.
C5_AllOrNothing ==
    /\ returned /= None => Complete(returned[1])
    /\ bpc = "raised"
          => /\ returned = None
             /\ kernel_error /= None
             /\ error = <<ErrGeometry, kernel_error[1]>>
    /\ (bpc = "failed" /\ returned = None)
          => /\ exported = <<>>
             /\ error = <<ErrExport[fmt], ErrGeometry, kernel_error[1]>>
    /\ \A k \in 1..Len(exported) : Complete(exported[k])
    /\ (kernel_error /= None /\ bpc = "raised") => exported = <<>>

C5_Witness ==
    /\ bpc = "failed"
    /\ returned = None
    /\ result /= None
    /\ exported = <<>>
    /\ error[3] = "Standard_NullObject"

Orient(p, q, r) ==
    (q[1] - p[1]) * (r[2] - p[2]) - (q[2] - p[2]) * (r[1] - p[1])

SegmentsCross(a, b, c, d) ==
    /\ Orient(a, b, c) * Orient(a, b, d) < 0
    /\ Orient(c, d, a) * Orient(c, d, b) < 0

\* The polygon's first vertex equals its last, no two opposite edges cross
\* and every corner turns the same way.
ClosedSimpleLoop(pts) ==
    /\ Len(pts) = 5
    /\ pts[1] = pts[5]
    /\ ~SegmentsCross(pts[1], pts[2], pts[3], pts[4])
    /\ ~SegmentsCross(pts[2], pts[3], pts[4], pts[1])
    /\ \/ /\ Orient(pts[1], pts[2], pts[3]) < 0
          /\ Orient(pts[2], pts[3], pts[4]) < 0
          /\ Orient(pts[3], pts[4], pts[1]) < 0
          /\ Orient(pts[4], pts[1], pts[2]) < 0
       \/ /\ Orient(pts[1], pts[2], pts[3]) > 0
          /\ Orient(pts[2], pts[3], pts[4]) > 0
          /\ Orient(pts[3], pts[4], pts[1]) > 0
          /\ Orient(pts[4], pts[1], pts[2]) > 0

\* The radii at which the edge of the given half-width lies.
EdgeRadii(pts, half_width) ==
    {pts[k][2] : k \in {j \in 1..Len(pts) : Abs(pts[j][1]) = half_width}}

\* C9 as stated: the wide edge lies at pitch_radius - belt_thickness, the
\* narrow edge (0.8 x base width) at that radius minus tooth_height, and the
\* vertices trace a closed, non-self-intersecting loop.
C9_AsStated ==
    base_tooth /= None
        => LET pts == base_tooth[1].points
               innerSurfaceRadius == self[1].pitch_radius - belt_thickness
           IN  /\ EdgeRadii(pts, tooth_width_at_base \div 2)
                     = {innerSurfaceRadius}
               /\ EdgeRadii(pts, (tooth_width_at_base * 8) \div 20)
                     = {innerSurfaceRadius - tooth_height}
               /\ ClosedSimpleLoop(pts)

\* C9 amended: the wide edge lies extra_depth below the inner surface, at
\* pitch_radius - belt_thickness - extra_depth, the narrow edge (0.8 x base
\* width) lies tooth_height above it, at pitch_radius - belt_thickness +
\* tooth_height, and the vertices trace a closed, non-self-intersecting
\* loop with consistent winding.
C9_ToothPolygon ==
    base_tooth /= None
        => LET pts == base_tooth[1].points
               innerSurfaceRadius == self[1].pitch_radius - belt_thickness
           IN  /\ EdgeRadii(pts, tooth_width_at_base \div 2)
                     = {innerSurfaceRadius - extra_depth}
               /\ EdgeRadii(pts, (tooth_width_at_base * 8) \div 20)
                     = {innerSurfaceRadius + tooth_height}
               /\ {Abs(pts[k][1]) : k \in 1..Len(pts)}
                     = {tooth_width_at_base \div 2,
                        (tooth_width_at_base * 8) \div 20}
               /\ ClosedSimpleLoop(pts)

C9_Witness ==
    /\ base_tooth /= None
    /\ self[1].length_mm = 3149
    /\ base_tooth[1].points[2] = <<-80, self[1].pitch_radius - 60>>

(***************************************************************************)
(* The web app (src/app.py).  Each user action reruns main(); an action    *)
(* below is the widget callback together with the rerun it triggers.  The  *)
(* "Generate Belt Files" rerun is split at its export, read and unlink     *)
(* calls, each of which may raise; no other user action runs until the     *)
(* rerun has ended.  Widget inputs stay within the widgets' ranges.        *)
(***************************************************************************)
MaxFlows == 2

AppLengths == {21000, 21100, 30000}
AppTeeth == {60, 100}
AppWidths == {400, 900}

\* scale_factor = st.session_state.scale_factor / 100.0, from tenths of a
\* percent to units of 1/100000.
ScaleFromPercent(p) == (p * NoScale) \div 1000

\* A belt object as the app holds it.
BeltOf(b) ==
    [length_mm |-> b.length_mm, num_teeth |-> b.num_teeth, width |-> b.width,
     scale_factor |-> b.scale_factor]

\* on_length_change: num_teeth = int(round(length / 3)); the rerun that
\* follows presses no button.
ChangeLength ==
    /\ apc = "idle"
    /\ \E v \in AppLengths :
          session_state' = [session_state EXCEPT
                               !.length = v,
                               !.num_teeth = PyRound(v, 300)]
    /\ UNCHANGED <<tmp_files, flows, apc>>
    /\ UNCHANGED ctorVars
    /\ UNCHANGED buildVars

\* on_teeth_change: length = float(num_teeth * 3)
ChangeTeeth ==
    /\ apc = "idle"
    /\ \E n \in AppTeeth :
          session_state' = [session_state EXCEPT
                               !.num_teeth = n,
                               !.length = n * 300]
    /\ UNCHANGED <<tmp_files, flows, apc>>
    /\ UNCHANGED ctorVars
    /\ UNCHANGED buildVars

\* The belt width widget has no callback: the value is stored.
ChangeWidth ==
    /\ apc = "idle"
    /\ \E w \in AppWidths :
          session_state' = [session_state EXCEPT !.belt_width = w]
    /\ UNCHANGED <<tmp_files, flows, apc>>
    /\ UNCHANGED ctorVars
    /\ UNCHANGED buildVars

\* The Calculate button: calculate_belt() stores the new belt, or None when
\* the constructor raises; nothing else of the session changes.
Calculate ==
    /\ apc = "idle"
    /\ LET b == S3MTimingBelt(Some(session_state.length), None,
                              session_state.belt_width,
                              ScaleFromPercent(session_state.scale_factor))
       IN  session_state' =
              [session_state EXCEPT
                  !.calculated_belt =
                      IF b.status = "ok" THEN Some(BeltOf(b)) ELSE None]
    /\ UNCHANGED <<tmp_files, flows, apc>>
    /\ UNCHANGED ctorVars
    /\ UNCHANGED buildVars

\* except Exception as e: st.error(...); return
FlowRaises ==
    /\ apc' = "idle"
    /\ UNCHANGED <<session_state, tmp_files, flows>>

\* The Generate Belt Files button, offered while calculated_belt is set:
\* both NamedTemporaryFile(delete=False) files are created.
GenerateClick ==
    /\ apc = "idle"
    /\ session_state.calculated_belt /= None
    /\ flows < MaxFlows
    /\ flows' = flows + 1
    /\ tmp_files' = tmp_files \cup {<<flows + 1, ".stl">>, <<flows + 1, ".step">>}
    /\ apc' = "export_stl"
    /\ UNCHANGED session_state
    /\ UNCHANGED ctorVars
    /\ UNCHANGED buildVars

\* belt.export_stl(stl_file.name)
AppExportStl ==
    /\ apc = "export_stl"
    /\ \/ /\ apc' = "export_step"
          /\ UNCHANGED <<session_state, tmp_files, flows>>
       \/ FlowRaises
    /\ UNCHANGED ctorVars
    /\ UNCHANGED buildVars

\* belt.export_step(step_file.name)
AppExportStep ==
    /\ apc = "export_step"
    /\ \/ /\ apc' = "read_stl"
          /\ UNCHANGED <<session_state, tmp_files, flows>>
       \/ FlowRaises
    /\ UNCHANGED ctorVars
    /\ UNCHANGED buildVars

\* with open(stl_file.name, 'rb') as f: st.session_state.stl_data = f.read()
ReadStl ==
    /\ apc = "read_stl"
    /\ \/ /\ session_state' =
                [session_state EXCEPT
                    !.stl_data = Some([format |-> "STL",
                                       belt |-> session_state.calculated_belt[1]])]
          /\ apc' = "read_step"
          /\ UNCHANGED <<tmp_files, flows>>
       \/ FlowRaises
    /\ UNCHANGED ctorVars
    /\ UNCHANGED buildVars

\* with open(step_file.name, 'rb') as f: st.session_state.step_data = f.read()
ReadStep ==
    /\ apc = "read_step"
    /\ \/ /\ session_state' =
                [session_state EXCEPT
                    !.step_data = Some([format |-> "STEP",
                                        belt |-> session_state.calculated_belt[1]])]
          /\ apc' = "unlink"
          /\ UNCHANGED <<tmp_files, flows>>
       \/ FlowRaises
    /\ UNCHANGED ctorVars
    /\ UNCHANGED buildVars

\* os.unlink(stl_file.name); os.unlink(step_file.name);
\* st.session_state.files_generated = True
UnlinkAndFinish ==
    /\ apc = "unlink"
    /\ tmp_files' = tmp_files \ {<<flows, ".stl">>, <<flows, ".step">>}
    /\ session_state' = [session_state EXCEPT !.files_generated = TRUE]
    /\ apc' = "idle"
    /\ UNCHANGED flows
    /\ UNCHANGED ctorVars
    /\ UNCHANGED buildVars

InitApp ==
    /\ CtorIdle
    /\ BuildIdle
    /\ AppIdle

NextApp ==
    \/ ChangeLength
    \/ ChangeTeeth
    \/ ChangeWidth
    \/ Calculate
    \/ GenerateClick
    \/ AppExportStl
    \/ AppExportStep
    \/ ReadStl
    \/ ReadStep
    \/ UnlinkAndFinish

SpecApp == InitApp /\ [][NextApp]_vars

(***************************************************************************)
(* Properties of the web app.                                              *)
(***************************************************************************)
\* C6: every temporary file created for export is deleted on every path
\* out of the file-generation flow; none outlives the flow.
C6_TempFilesReleased == apc = "idle" => tmp_files = {}

\* C10: whenever the download buttons are offered, calculated_belt is set
\* and stl_data and step_data were generated from that belt, whose length
\* and tooth count name the downloads.
C10_DownloadsMatchBelt ==
    (apc = "idle" /\ session_state.files_generated)
        => /\ session_state.calculated_belt /= None
           /\ session_state.stl_data =
                 Some([format |-> "STL",
                       belt |-> session_state.calculated_belt[1]])
           /\ session_state.step_data =
                 Some([format |-> "STEP",
                       belt |-> session_state.calculated_belt[1]])

====
